---- MODULE Spec2Model ----
(***************************************************************************)
(* Model of the two streaming sessions of BackendTester                    *)
(* (src/gradio_client/backend_tester.py): test_stream_generation (text)    *)
(* and test_vision_stream_analysis (vision).  Each is a generator that     *)
(* validates its input, posts the request, and then consumes server-sent   *)
(* events one by one, yielding display snapshots.                          *)
(*                                                                         *)
(* Strings are sequences of tokens ("A", "B", ...), so that concatenation, *)
(* prefix, suffix and substring are the real operations on sequences.      *)
(* JSON values are records [t, s, n]: t is the JSON type, s the characters *)
(* of a string, n the number (or 1/0 for true/false).                      *)
(***************************************************************************)
EXTENDS Integers, Sequences, FiniteSets, TLC

\* ------------------------------------------------------------------ bounds
\* Largest number of events the transport delivers in one session.
MaxEvents == 3

\* ------------------------------------------------------------- JSON values
Str(s)  == [t |-> "str",    s |-> s,    n |-> 0]
Num(n)  == [t |-> "num",    s |-> <<>>, n |-> n]
True    == [t |-> "bool",   s |-> <<>>, n |-> 1]
False   == [t |-> "bool",   s |-> <<>>, n |-> 0]
Null    == [t |-> "null",   s |-> <<>>, n |-> 0]
\* marks a key that the object does not have
Absent  == [t |-> "absent", s |-> <<>>, n |-> 0]

Keys == {"done", "finishReason", "status", "error",
         "content", "text", "finalText", "other"}

\* a JSON object: every key of Keys is mapped to its value, or to Absent
Obj(f) == [k \in Keys |-> IF k \in DOMAIN f THEN f[k] ELSE Absent]

EmptyObj == [k \in Keys |-> Absent]

\* payload of one server-sent event (event.data): text that is not JSON,
\* JSON that is not an object, or a JSON object
Malformed      == [shape |-> "malformed", obj |-> EmptyObj]
NonObject(sh)  == [shape |-> sh, obj |-> EmptyObj]
Object(f)      == [shape |-> "object", obj |-> Obj(f)]

NonObjectShapes == {"number", "string", "array", "null"}

\* ---------------------------------------------------- Python's operations
\* key in data
Has(data, k) == data[k] # Absent

\* data.get(k): the value, or None when the key is missing
Get(data, k) == IF Has(data, k) THEN data[k] ELSE Null

\* bool(v)
Truthy(v) ==
  CASE v.t = "str"  -> v.s # <<>>
    [] v.t = "num"  -> v.n # 0
    [] v.t = "bool" -> v.n = 1
    [] OTHER        -> FALSE

\* v == True  (Python compares bool and int by value: 1 == True)
PyEqTrue(v) == v.t \in {"bool", "num"} /\ v.n = 1

\* s in t  for two strings: s occurs somewhere in t
IsSubstring(s, t) ==
  \E i \in 0..(Len(t) - Len(s)) : SubSeq(t, i + 1, i + Len(s)) = s

\* json.loads(event.data) succeeds
Decodable(payload) == payload.shape # "malformed"

\* the decoded value is a dict (only a dict has .get and supports 'k in data'
\* as a key test without raising on .get)
IsDict(payload) == payload.shape = "object"

\* ------------------------------------------------------------ the inputs
\* Payloads the backend may send.  Text-bearing fields (content, text,
\* finalText, error) carry JSON strings, as in the event schema; the marker
\* fields (done, finishReason, status) also take values of other types.
\* Each session is fed the payloads of its own schema, the other session's
\* markers and fields, payloads outside both schemas, and events that carry
\* two fields at once.
CommonEvents ==
  { Malformed }
  \cup { NonObject(sh) : sh \in NonObjectShapes }
  \cup { Object("other" :> Num(1)),
         Object("done" :> True),
         Object("finishReason" :> Str(<<"STOP">>)),
         Object("status" :> Str(<<"completed">>)),
         Object("error" :> Str(<<"E">>)),
         Object("error" :> Str(<<>>)),
         Object("done" :> True @@ "error" :> Str(<<"E">>)),
         Object("error" :> Str(<<"E">>) @@ "text" :> Str(<<"A">>)),
         Object("content" :> Str(<<"A">>) @@ "text" :> Str(<<"B">>)),
         Object("content" :> Str(<<"A">>)),
         Object("text" :> Str(<<"A">>)),
         Object("finalText" :> Str(<<"A">>)) }

\* what a text session's transport may deliver
TextEvents ==
  CommonEvents
  \cup { Object("done" :> False),
         Object("done" :> Num(1)),
         Object("content" :> Str(<<>>)),
         Object("content" :> Str(<<"B">>)),
         Object("text" :> Str(<<>>)),
         Object("done" :> True @@ "content" :> Str(<<"A">>)),
         Object("error" :> Str(<<"E">>) @@ "content" :> Str(<<"A">>)),
         Object("content" :> Str(<<>>) @@ "text" :> Str(<<"B">>)) }

\* what a vision session's transport may deliver
VisionEvents ==
  CommonEvents
  \cup { Object("finishReason" :> Str(<<>>)),
         Object("finishReason" :> Null),
         Object("status" :> Str(<<"running">>)),
         Object("text" :> Str(<<"B">>)),
         Object("finalText" :> Str(<<>>)),
         Object("finalText" :> Str(<<"B">>)),
         Object("finishReason" :> Str(<<"STOP">>) @@ "error" :> Str(<<"E">>)),
         Object("status" :> Str(<<"completed">>) @@ "text" :> Str(<<"A">>)),
         Object("text" :> Str(<<"A">>) @@ "finalText" :> Str(<<"B">>)) }

\* HTTP status codes the backend may answer the POST with
Statuses == {200, 400, 404, 413, 429, 500, 503}

\* ------------------------------------------------------------- snapshots
\* One yielded (display, log) pair: its kind, the accumulated text it shows,
\* the delta or message it carries, and the chunk number it reports.
Snap(ty, text, msg, chunk) ==
  [type |-> ty, text |-> text, msg |-> msg, chunk |-> chunk]

\* outcome of one pass through the loop body: the new accumulated text, the
\* snapshots yielded, and whether the generator goes on ("next") or returns
Outcome(acc, out, ctl) == [acc |-> acc, out |-> out, ctl |-> ctl]

\* ------------------------------------------------ the text session's loop
\* data.get('done') == True
TextIsDone(data) == PyEqTrue(Get(data, "done"))

\* variant: 'except BaseException', which also catches GeneratorExit
IsException_CatchAll(name) == TRUE

\* variant: no 'except Exception' clause, so that nothing is caught
IsException_CatchNone(name) == FALSE

\* the exception is an instance of Exception, which 'except Exception'
\* catches; GeneratorExit, raised at the yield by close(), is not
IsException(name) == name # "GeneratorExit"

\* the generator's 'except Exception' handler: one error snapshot, then the
\* generator ends; what it does not catch leaves the generator ("raise")
TextOnException(acc, name) ==
  IF IsException(name)
    THEN Outcome(acc, <<Snap("exception", <<>>, <<name>>, 0)>>, "return")
    ELSE Outcome(acc, <<>>, "raise")

\* total_duration/chunk_count in the final result raises ZeroDivisionError
\* when chunk_count is 0 (a float divided by the int 0)
AverageRaises(cc) == cc = 0

\* variant: the completion snapshot is yielded but the 'return' is missing
TextOnDone_NoReturn(acc, cc) ==
  Outcome(acc, <<Snap("completed", acc, <<>>, cc)>>, "next")

\* completion: build the final result, which divides total_duration by
\* chunk_count, then yield it and return
TextOnDone(acc, cc) ==
  IF AverageRaises(cc)
    THEN TextOnException(acc, "ZeroDivisionError")
    ELSE Outcome(acc, <<Snap("completed", acc, <<>>, cc)>>, "return")

\* 'error' in data: yield the error message and return
TextOnError(data, acc) ==
  Outcome(acc, <<Snap("error", <<>>, data["error"].s, 0)>>, "return")

\* variant: the delta is put in front of the accumulated text
TextAppend_Prepend(acc, delta_text) == delta_text \o acc

\* accumulated_text += delta_text
TextAppend(acc, delta_text) == acc \o delta_text

\* non-empty 'content': append the delta and yield a progress snapshot
TextOnContent(data, acc, cc) ==
  LET delta_text == data["content"].s
      new == TextAppend(acc, delta_text)
  IN  Outcome(new, <<Snap("progress", new, delta_text, cc)>>, "next")

\* variant: the old-format text is appended, as the vision session does
TextOnText_Append(data, acc, cc) ==
  LET new == acc \o data["text"].s
  IN  Outcome(new, <<Snap("legacy", new, <<>>, cc)>>, "next")

\* 'text' (old format): accumulated_text = data['text']
TextOnText(data, acc, cc) ==
  LET new == data["text"].s
  IN  Outcome(new, <<Snap("legacy", new, <<>>, cc)>>, "next")

\* variant: the error field is tested before the completion marker
TextDispatch_ErrorFirst(data, acc, cc) ==
  IF Has(data, "error")
    THEN TextOnError(data, acc)
  ELSE IF TextIsDone(data)
    THEN TextOnDone(acc, cc)
  ELSE IF Has(data, "content") /\ Truthy(data["content"])
    THEN TextOnContent(data, acc, cc)
  ELSE IF Has(data, "text")
    THEN TextOnText(data, acc, cc)
  ELSE Outcome(acc, <<>>, "next")

\* variant: the text field is tested with 'if' instead of 'elif', so that an
\* event with both content and text runs both branches
TextDispatch_IfForElif(data, acc, cc) ==
  IF TextIsDone(data)
    THEN TextOnDone(acc, cc)
  ELSE IF Has(data, "error")
    THEN TextOnError(data, acc)
  ELSE LET first == IF Has(data, "content") /\ Truthy(data["content"])
                      THEN TextOnContent(data, acc, cc)
                      ELSE Outcome(acc, <<>>, "next")
           second == IF Has(data, "text")
                       THEN TextOnText(data, first.acc, cc)
                       ELSE Outcome(first.acc, <<>>, "next")
       IN  Outcome(second.acc, first.out \o second.out, "next")

\* the if-chain over a decoded object
TextDispatch(data, acc, cc) ==
  IF TextIsDone(data)
    THEN TextOnDone(acc, cc)
  ELSE IF Has(data, "error")
    THEN TextOnError(data, acc)
  ELSE IF Has(data, "content") /\ Truthy(data["content"])
    THEN TextOnContent(data, acc, cc)
  ELSE IF Has(data, "text")
    THEN TextOnText(data, acc, cc)
  ELSE Outcome(acc, <<>>, "next")

\* variant: no 'except json.JSONDecodeError', so that a decode failure
\* reaches the generator's 'except Exception' handler
TextLoopBody_DecodeErrorFatal(payload, acc, cc) ==
  IF ~Decodable(payload)
    THEN TextOnException(acc, "JSONDecodeError")
  ELSE IF ~IsDict(payload)
    THEN TextOnException(acc, "AttributeError")
  ELSE TextDispatch(payload.obj, acc, cc)

\* Body of the event loop of test_stream_generation for one event, after
\* chunk_count += 1: accumulated text acc, chunk number cc.
TextLoopBody(payload, acc, cc) ==
  IF ~Decodable(payload)
    THEN \* json.JSONDecodeError: continue
         Outcome(acc, <<>>, "next")
  ELSE IF ~IsDict(payload)
    THEN \* data.get raises AttributeError, caught by 'except Exception'
         TextOnException(acc, "AttributeError")
  ELSE TextDispatch(payload.obj, acc, cc)

\* ---------------------------------------------- the vision session's loop
\* variant: 'finishReason' in data, a test of presence
VisionIsDone_Present(data) ==
  \/ Has(data, "finishReason")
  \/ Get(data, "status") = Str(<<"completed">>)

\* data.get('finishReason') or data.get('status') == 'completed'
VisionIsDone(data) ==
  \/ Truthy(Get(data, "finishReason"))
  \/ Get(data, "status") = Str(<<"completed">>)

VisionOnDone(acc, cc) ==
  Outcome(acc, <<Snap("completed", acc, <<>>, cc)>>, "return")

\* variant: the error snapshot is yielded but the 'return' is missing
VisionOnError_NoReturn(data, acc) ==
  Outcome(acc, <<Snap("error", <<>>, data["error"].s, 0)>>, "next")

VisionOnError(data, acc) ==
  Outcome(acc, <<Snap("error", <<>>, data["error"].s, 0)>>, "return")

\* variant: the delta replaces the accumulated text
VisionAppend_Replace(acc, delta_text) == delta_text

\* accumulated_text += delta_text
VisionAppend(acc, delta_text) == acc \o delta_text

\* 'text': append the delta and yield a progress snapshot
VisionOnText(data, acc, cc) ==
  LET delta_text == data["text"].s
      new == VisionAppend(acc, delta_text)
  IN  Outcome(new, <<Snap("progress", new, delta_text, cc)>>, "next")

\* final_delta and final_delta not in accumulated_text
FinalTextIsNew(final_delta, acc) ==
  final_delta # <<>> /\ ~IsSubstring(final_delta, acc)

\* 'finalText': append it when it is new, yield a near-final snapshot
VisionOnFinalText(data, acc, cc) ==
  LET final_delta == data["finalText"].s
      new == IF FinalTextIsNew(final_delta, acc)
               THEN acc \o final_delta
               ELSE acc
  IN  Outcome(new, <<Snap("near_final", new, final_delta, cc)>>, "next")

VisionDispatch(data, acc, cc) ==
  IF VisionIsDone(data)
    THEN VisionOnDone(acc, cc)
  ELSE IF Has(data, "error")
    THEN VisionOnError(data, acc)
  ELSE IF Has(data, "text")
    THEN VisionOnText(data, acc, cc)
  ELSE IF Has(data, "finalText")
    THEN VisionOnFinalText(data, acc, cc)
  ELSE Outcome(acc, <<>>, "next")

VisionOnException(acc, name) ==
  IF IsException(name)
    THEN Outcome(acc, <<Snap("exception", <<>>, <<name>>, 0)>>, "return")
    ELSE Outcome(acc, <<>>, "raise")

\* Body of the event loop of test_vision_stream_analysis for one event.
VisionLoopBody(payload, acc, cc) ==
  IF ~Decodable(payload)
    THEN Outcome(acc, <<>>, "next")
  ELSE IF ~IsDict(payload)
    THEN VisionOnException(acc, "AttributeError")
  ELSE VisionDispatch(payload.obj, acc, cc)

\* message chosen for an HTTP error status by each session
TextHttpMessage(status) ==
  CASE status = 400 -> "bad_request"
    [] status = 429 -> "rate_limited"
    [] status = 503 -> "service_unavailable"
    [] OTHER        -> "generic"

VisionHttpMessage(status) ==
  CASE status = 400 -> "bad_request"
    [] status = 413 -> "payload_too_large"
    [] status = 429 -> "rate_limited"
    [] status = 500 -> "server_error"
    [] OTHER        -> "generic"

\* variant: raise_for_status() is not called
RaisesForStatus_Never(status) == FALSE

\* variant: raise_for_status() raises for server errors only
RaisesForStatus_ServerOnly(status) == status >= 500 /\ status < 600

\* response.raise_for_status() raises HTTPError for 4xx and 5xx
RaisesForStatus(status) == status >= 400 /\ status < 600

\* variant: the 'chunk_count += 1' statement is missing
CountEvent_Missing(cc) == cc

\* variant: chunk_count = 1 instead of chunk_count += 1
CountEvent_Assign(cc) == 1

\* chunk_count += 1
CountEvent(cc) == cc + 1

\* ------------------------------------------------------------------ state
VARIABLES
  kind,              \* which generator was called: "text" or "vision"
  pc,                \* where the generator stands: "start", "connecting",
                     \* "streaming" (in the event loop), "returned",
                     \* "closed" (ended by close()), "propagated" (ended by
                     \* an exception that reached the caller)
  remaining,         \* events the transport has still to deliver
  received,          \* the events delivered so far, in arrival order
  accumulated_text,  \* local accumulated_text
  chunk_count,       \* local chunk_count
  snapshots,         \* every (display, log) pair yielded so far
  posts,             \* number of session.post calls made
  status,            \* response.status_code (0 while there is no response)
  raised,            \* the exception raised in the generator's try block
                     \* ("none" if none was)
  suspended,         \* the generator is suspended at a yield
  tester,            \* base_url of the object the global 'tester' names
  captured,          \* base_url of the object whose bound methods
                     \* create_interface registered as click handlers
  configured,        \* the address last given to the panel (the default
                     \* address until update_server_url is called)
  requests,          \* the requests the panel's operations have sent
  frames,            \* the locals of the generator calls running
                     \* side by side: cell -> [accumulated_text, chunk_count]
  sessions           \* those generator calls: id -> [kind, pc, received,
                     \* snapshots]

session_vars == <<kind, pc, remaining, received, accumulated_text,
                  chunk_count, snapshots, posts, status, raised, suspended>>

panel_vars == <<tester, captured, configured, requests>>

pair_vars == <<frames, sessions>>

vars == <<kind, pc, remaining, received, accumulated_text, chunk_count,
          snapshots, posts, status, raised, suspended,
          tester, captured, configured, requests, frames, sessions>>

\* URLs are sequences of tokens; "/" is the character stripped by rstrip
DefaultUrl == <<"localhost:3001">>

RECURSIVE RStrip(_)
\* base_url.rstrip('/')
RStrip(url) ==
  IF url # <<>> /\ url[Len(url)] = "/"
    THEN RStrip(SubSeq(url, 1, Len(url) - 1))
    ELSE url

\* BackendTester.__init__
BackendTester(base_url) == RStrip(base_url)

\* the panel as created and not used: the global tester is the default
\* BackendTester(), and the click handlers are bound to that same object
PanelIdle ==
  /\ tester = BackendTester(DefaultUrl)
  /\ captured = BackendTester(DefaultUrl)
  /\ configured = DefaultUrl
  /\ requests = <<>>

\* no generator calls running side by side
PairIdle ==
  /\ frames = <<>>
  /\ sessions = <<>>

Init ==
  /\ kind \in {"text", "vision"}
  /\ pc = "start"
  /\ remaining \in 0..MaxEvents
  /\ received = <<>>
  /\ accumulated_text = <<>>
  /\ chunk_count = 0
  /\ snapshots = <<>>
  /\ posts = 0
  /\ status = 0
  /\ raised = "none"
  /\ suspended = FALSE
  /\ PanelIdle
  /\ PairIdle

\* where the generator stands after a piece of its body ended with ctl
PcAfter(ctl) ==
  CASE ctl = "return" -> "returned"
    [] ctl = "raise"  -> "propagated"
    [] OTHER          -> "streaming"

\* test_stream_generation up to its first yield: a blank question yields a
\* warning and returns, otherwise the 'connecting' snapshot is yielded
TextStart ==
  /\ kind = "text" /\ pc = "start"
  /\ \E blank \in BOOLEAN :
       IF blank
         THEN /\ snapshots' = Append(snapshots, Snap("warning", <<>>, <<>>, 0))
              /\ pc' = "returned"
              /\ suspended' = FALSE
         ELSE /\ snapshots' = Append(snapshots,
                                     Snap("connecting", <<>>, <<>>, 0))
              /\ pc' = "connecting"
              /\ suspended' = TRUE
  /\ UNCHANGED <<kind, remaining, received, accumulated_text, chunk_count,
                 posts, status, raised>>
  /\ UNCHANGED <<panel_vars, pair_vars>>

\* the POST and raise_for_status: a failure yields one error snapshot and
\* the generator ends; success yields 'connected' and initialises the locals
TextConnect ==
  /\ kind = "text" /\ pc = "connecting"
  /\ posts' = posts + 1
  /\ \E failed \in BOOLEAN, code \in Statuses :
       IF failed
         THEN LET r == TextOnException(<<>>, "ConnectionError")
              IN  /\ snapshots' = snapshots \o r.out
                  /\ pc' = PcAfter(r.ctl)
                  /\ status' = 0
                  /\ raised' = "ConnectionError"
                  /\ suspended' = FALSE
       ELSE IF RaisesForStatus(code)
         THEN /\ snapshots' = Append(snapshots,
                   Snap("http_error", <<>>, <<TextHttpMessage(code)>>, 0))
              /\ pc' = "returned"
              /\ status' = code
              /\ raised' = "HTTPError"
              /\ suspended' = FALSE
         ELSE /\ snapshots' = Append(snapshots,
                                     Snap("connected", <<>>, <<>>, 0))
              /\ pc' = "streaming"
              /\ status' = code
              /\ raised' = raised
              /\ suspended' = TRUE
  /\ accumulated_text' = <<>>
  /\ chunk_count' = 0
  /\ UNCHANGED <<kind, remaining, received>>
  /\ UNCHANGED <<panel_vars, pair_vars>>

\* one iteration of 'for event in client.events()': count the event, run
\* the body, yield what it yields
TextEvent ==
  /\ kind = "text" /\ pc = "streaming" /\ remaining > 0
  /\ \E event \in TextEvents :
       LET cc == CountEvent(chunk_count)
           r  == TextLoopBody(event, accumulated_text, cc)
       IN  /\ received' = Append(received, event)
           /\ chunk_count' = cc
           /\ accumulated_text' = r.acc
           /\ snapshots' = snapshots \o r.out
           /\ pc' = PcAfter(r.ctl)
           /\ suspended' = (r.ctl = "next" /\ r.out # <<>>)
           /\ raised' = IF Decodable(event) /\ ~IsDict(event)
                          THEN "AttributeError"
                        ELSE IF /\ Decodable(event)
                                /\ TextIsDone(event.obj)
                                /\ AverageRaises(cc)
                          THEN "ZeroDivisionError"
                        ELSE raised
  /\ remaining' = remaining - 1
  /\ UNCHANGED <<kind, posts, status>>
  /\ UNCHANGED <<panel_vars, pair_vars>>

\* client.events() is exhausted: the loop ends and the generator returns
TextExhausted ==
  /\ kind = "text" /\ pc = "streaming" /\ remaining = 0
  /\ pc' = "returned"
  /\ suspended' = FALSE
  /\ UNCHANGED <<kind, remaining, received, accumulated_text, chunk_count,
                 snapshots, posts, status, raised>>
  /\ UNCHANGED <<panel_vars, pair_vars>>

\* the transport raises while the loop waits for the next event
TextTransportError ==
  /\ kind = "text" /\ pc = "streaming" /\ remaining > 0
  /\ LET r == TextOnException(accumulated_text, "TransportError")
     IN  /\ snapshots' = snapshots \o r.out
         /\ pc' = PcAfter(r.ctl)
  /\ raised' = "TransportError"
  /\ suspended' = FALSE
  /\ UNCHANGED <<kind, remaining, received, accumulated_text, chunk_count,
                 posts, status>>
  /\ UNCHANGED <<panel_vars, pair_vars>>

\* the caller abandons the generator: close() raises GeneratorExit at the
\* yield where the generator is suspended, inside the try block; unless a
\* handler catches it, the generator just ends
TextClose ==
  /\ kind = "text" /\ suspended
  /\ LET r == TextOnException(accumulated_text, "GeneratorExit")
     IN  /\ snapshots' = snapshots \o r.out
         /\ pc' = IF r.ctl = "raise" THEN "closed" ELSE PcAfter(r.ctl)
  /\ raised' = "GeneratorExit"
  /\ suspended' = FALSE
  /\ UNCHANGED <<kind, remaining, received, accumulated_text, chunk_count,
                 posts, status>>
  /\ UNCHANGED <<panel_vars, pair_vars>>

\* test_vision_stream_analysis up to its first yield: a missing image yields
\* a warning and returns; a failure to encode the image is caught by
\* 'except Exception'; otherwise the 'connecting' snapshot is yielded
VisionStart ==
  /\ kind = "vision" /\ pc = "start"
  /\ \E image_is_none \in BOOLEAN, encode_failed \in BOOLEAN :
       IF image_is_none
         THEN /\ snapshots' = Append(snapshots, Snap("warning", <<>>, <<>>, 0))
              /\ pc' = "returned"
              /\ suspended' = FALSE
              /\ raised' = raised
       ELSE IF encode_failed
         THEN LET r == VisionOnException(<<>>, "EncodeError")
              IN  /\ snapshots' = snapshots \o r.out
                  /\ pc' = PcAfter(r.ctl)
                  /\ suspended' = FALSE
                  /\ raised' = "EncodeError"
         ELSE /\ snapshots' = Append(snapshots,
                                     Snap("connecting", <<>>, <<>>, 0))
              /\ pc' = "connecting"
              /\ suspended' = TRUE
              /\ raised' = raised
  /\ UNCHANGED <<kind, remaining, received, accumulated_text, chunk_count,
                 posts, status>>
  /\ UNCHANGED <<panel_vars, pair_vars>>

VisionConnect ==
  /\ kind = "vision" /\ pc = "connecting"
  /\ posts' = posts + 1
  /\ \E failed \in BOOLEAN, code \in Statuses :
       IF failed
         THEN LET r == VisionOnException(<<>>, "ConnectionError")
              IN  /\ snapshots' = snapshots \o r.out
                  /\ pc' = PcAfter(r.ctl)
                  /\ status' = 0
                  /\ raised' = "ConnectionError"
                  /\ suspended' = FALSE
       ELSE IF RaisesForStatus(code)
         THEN /\ snapshots' = Append(snapshots,
                   Snap("http_error", <<>>, <<VisionHttpMessage(code)>>, 0))
              /\ pc' = "returned"
              /\ status' = code
              /\ raised' = "HTTPError"
              /\ suspended' = FALSE
         ELSE /\ snapshots' = Append(snapshots,
                                     Snap("connected", <<>>, <<>>, 0))
              /\ pc' = "streaming"
              /\ status' = code
              /\ raised' = raised
              /\ suspended' = TRUE
  /\ accumulated_text' = <<>>
  /\ chunk_count' = 0
  /\ UNCHANGED <<kind, remaining, received>>
  /\ UNCHANGED <<panel_vars, pair_vars>>

VisionEvent ==
  /\ kind = "vision" /\ pc = "streaming" /\ remaining > 0
  /\ \E event \in VisionEvents :
       LET cc == CountEvent(chunk_count)
           r  == VisionLoopBody(event, accumulated_text, cc)
       IN  /\ received' = Append(received, event)
           /\ chunk_count' = cc
           /\ accumulated_text' = r.acc
           /\ snapshots' = snapshots \o r.out
           /\ pc' = PcAfter(r.ctl)
           /\ suspended' = (r.ctl = "next" /\ r.out # <<>>)
           /\ raised' = IF Decodable(event) /\ ~IsDict(event)
                          THEN "AttributeError" ELSE raised
  /\ remaining' = remaining - 1
  /\ UNCHANGED <<kind, posts, status>>
  /\ UNCHANGED <<panel_vars, pair_vars>>

VisionExhausted ==
  /\ kind = "vision" /\ pc = "streaming" /\ remaining = 0
  /\ pc' = "returned"
  /\ suspended' = FALSE
  /\ UNCHANGED <<kind, remaining, received, accumulated_text, chunk_count,
                 snapshots, posts, status, raised>>
  /\ UNCHANGED <<panel_vars, pair_vars>>

VisionTransportError ==
  /\ kind = "vision" /\ pc = "streaming" /\ remaining > 0
  /\ LET r == VisionOnException(accumulated_text, "TransportError")
     IN  /\ snapshots' = snapshots \o r.out
         /\ pc' = PcAfter(r.ctl)
  /\ raised' = "TransportError"
  /\ suspended' = FALSE
  /\ UNCHANGED <<kind, remaining, received, accumulated_text, chunk_count,
                 posts, status>>
  /\ UNCHANGED <<panel_vars, pair_vars>>

VisionClose ==
  /\ kind = "vision" /\ suspended
  /\ LET r == VisionOnException(accumulated_text, "GeneratorExit")
     IN  /\ snapshots' = snapshots \o r.out
         /\ pc' = IF r.ctl = "raise" THEN "closed" ELSE PcAfter(r.ctl)
  /\ raised' = "GeneratorExit"
  /\ suspended' = FALSE
  /\ UNCHANGED <<kind, remaining, received, accumulated_text, chunk_count,
                 posts, status>>
  /\ UNCHANGED <<panel_vars, pair_vars>>

Next ==
  \/ TextStart
  \/ TextConnect
  \/ TextEvent
  \/ TextExhausted
  \/ TextTransportError
  \/ TextClose
  \/ VisionStart
  \/ VisionConnect
  \/ VisionEvent
  \/ VisionExhausted
  \/ VisionTransportError
  \/ VisionClose

Spec == Init /\ [][Next]_vars

\* ============================================================ properties
Last(s) == s[Len(s)]

IsPrefix(s, t) == Len(s) <= Len(t) /\ SubSeq(t, 1, Len(s)) = s

IsSuffix(s, t) ==
  Len(s) <= Len(t) /\ SubSeq(t, Len(t) - Len(s) + 1, Len(t)) = s

\* this step consumed an event from the transport
EventStep == received' # received

\* the event consumed by this step
NewEvent == Last(received')

\* the snapshots yielded by this step
NewSnaps == SubSeq(snapshots', Len(snapshots) + 1, Len(snapshots'))

\* the events used in the examples
DoneTrue        == Object("done" :> True)
StatusCompleted == Object("status" :> Str(<<"completed">>))
ContentOf(s)    == Object("content" :> Str(s))
TextOf(s)       == Object("text" :> Str(s))
FinalTextOf(s)  == Object("finalText" :> Str(s))

\* ----------------------------------------------------------------- C1
\* an event that carries a non-empty content string and is neither a
\* completion nor an error event
ContentEvent(e) ==
  /\ e.shape = "object"
  /\ e.obj["content"].t = "str" /\ e.obj["content"].s # <<>>
  /\ ~Has(e.obj, "done") /\ ~Has(e.obj, "error")

RECURSIVE Deltas(_)
\* concatenation of the content values of a sequence of events
Deltas(evs) ==
  IF evs = <<>> THEN <<>>
  ELSE Head(evs).obj["content"].s \o Deltas(Tail(evs))

\* C1: in a text session whose events all carry a non-empty content string
\* (optionally followed by the done event), the accumulated text is the
\* concatenation of the content values in arrival order, and the completion
\* snapshot shows that text.
C1_ContentConcatenation ==
  kind = "text" =>
    LET n    == Len(received)
        done == n > 0 /\ received[n] = DoneTrue
        body == IF done THEN SubSeq(received, 1, n - 1) ELSE received
    IN  (\A i \in 1..Len(body) : ContentEvent(body[i])) =>
          /\ accumulated_text = Deltas(body)
          /\ done => /\ pc = "returned"
                     /\ Last(snapshots).type = "completed"
                     /\ Last(snapshots).text = Deltas(body)

\* two content events and the done event give the concatenation
C1_Witness ==
  /\ kind = "text" /\ pc = "returned"
  /\ received = <<ContentOf(<<"A">>), ContentOf(<<"B">>), DoneTrue>>
  /\ accumulated_text = <<"A", "B">>

\* ----------------------------------------------------------------- C2
\* C2: in both sessions chunk_count is at all times the number of events
\* received from the transport so far, whatever their payload.
C2_ChunkCountIsEventCount == chunk_count = Len(received)

\* a vision session that has counted a malformed, an unknown-field and an
\* incremental event
C2_Witness ==
  /\ chunk_count = 3
  /\ received[1] = Malformed
  /\ received[2] = Object("other" :> Num(1))
  /\ received[3] = TextOf(<<"A">>)
  /\ kind = "vision"

\* ----------------------------------------------------------------- C3
\* a terminal event: done for text; a finish reason or status completed for
\* vision; or an error event
TerminalEvent(k, e) ==
  /\ e.shape = "object"
  /\ \/ Has(e.obj, "error")
     \/ k = "text" /\ e.obj["done"] = True
     \/ k = "vision" /\ e.obj["finishReason"].t = "str"
                     /\ e.obj["finishReason"].s # <<>>
     \/ k = "vision" /\ e.obj["status"] = Str(<<"completed">>)

\* C3: the step that consumes a terminal event yields exactly one snapshot
\* and ends the session; a terminal event is never followed by another
\* received event, and an ended session neither consumes an event nor yields
\* a snapshot, whatever the transport still holds.
C3_step ==
  /\ (EventStep /\ TerminalEvent(kind, NewEvent)) =>
        Len(NewSnaps) = 1 /\ pc' = "returned"
  /\ \A i \in 1..Len(received') :
        TerminalEvent(kind, received'[i]) =>
          i = Len(received') /\ pc' = "returned"
  /\ pc = "returned" =>
        UNCHANGED <<received, snapshots, accumulated_text, chunk_count, pc>>

C3_StopsAfterTerminal == [][C3_step]_vars

\* a session that ended on its completion event while the transport still
\* had events to deliver
C3_Witness ==
  /\ pc = "returned" /\ remaining > 0
  /\ Len(received) > 0 /\ TerminalEvent(kind, Last(received))
  /\ Last(snapshots).type = "completed"

\* ----------------------------------------------------------------- C4
\* what a session shows of its events: the snapshots yielded by the loop,
\* without the chunk number
Shown(snaps) ==
  [i \in 1..Len(snaps) |->
     [type |-> snaps[i].type, text |-> snaps[i].text, msg |-> snaps[i].msg]]

LoopBody(k, e, acc, cc) ==
  IF k = "text" THEN TextLoopBody(e, acc, cc) ELSE VisionLoopBody(e, acc, cc)

RECURSIVE Replay(_, _, _, _)
\* the loop run over a sequence of events from accumulated text acc with the
\* snapshots out yielded so far: [acc, out, ctl] at its end; every event is
\* given the chunk number 1, which Shown leaves out
Replay(k, evs, acc, out) ==
  IF evs = <<>> THEN Outcome(acc, out, "next")
  ELSE LET r == LoopBody(k, Head(evs), acc, 1)
       IN  IF r.ctl = "return"
             THEN Outcome(r.acc, out \o r.out, "return")
             ELSE Replay(k, Tail(evs), r.acc, out \o r.out)

RECURSIVE WithoutMalformed(_)
WithoutMalformed(evs) ==
  IF evs = <<>> THEN <<>>
  ELSE IF Head(evs) = Malformed THEN WithoutMalformed(Tail(evs))
  ELSE <<Head(evs)>> \o WithoutMalformed(Tail(evs))

\* of all snapshots yielded, those of the event loop: the ones after
\* 'connecting' and 'connected', without a transport failure's
LoopSnapsOf(snaps) ==
  LET all == SubSeq(snaps, 3, Len(snaps))
  IN  IF all # <<>> /\ Last(all).msg = <<"TransportError">>
        THEN SubSeq(all, 1, Len(all) - 1)
        ELSE all

\* C4: an event whose payload is not decodable JSON yields no snapshot
\* (hence no error snapshot: nothing is raised), leaves accumulated_text
\* unchanged and leaves the session running; and at every step the
\* accumulated text and the snapshots of a session are those of the same
\* session fed the same events without the undecodable ones.
C4_step ==
  /\ (EventStep /\ NewEvent = Malformed) =>
        /\ NewSnaps = <<>>
        /\ accumulated_text' = accumulated_text
        /\ pc' = "streaming"
  /\ LET r == Replay(kind, WithoutMalformed(received'), <<>>, <<>>)
     IN  /\ accumulated_text' = r.acc
         /\ Shown(LoopSnapsOf(snapshots')) = Shown(r.out)

C4_MalformedIsSkipped == [][C4_step]_vars

\* a malformed event between two content events
C4_Witness ==
  /\ kind = "text"
  /\ received = <<ContentOf(<<"A">>), Malformed, ContentOf(<<"B">>)>>
  /\ accumulated_text = <<"A", "B">>
  /\ Len(snapshots) = 4
  /\ pc = "streaming"

\* ----------------------------------------------------------------- C5
\* C5 as stated: over every step of either session the previous accumulated
\* text is a prefix of, or at least no longer than, the new one.
C5_NeverShrinks ==
  [][ \/ IsPrefix(accumulated_text, accumulated_text')
      \/ Len(accumulated_text) <= Len(accumulated_text') ]_vars

\* C5 amended: the previous accumulated text is a prefix of the new one over
\* every step of a vision session, and over every step of a text session
\* other than the handling of an event that has a text field and no
\* non-empty content.
C5_GrowsExceptTextReplace ==
  [][ (kind = "vision"
       \/ ~(EventStep /\ Has(NewEvent.obj, "text")
                      /\ NewEvent.obj["content"].s = <<>>))
        => IsPrefix(accumulated_text, accumulated_text') ]_vars

\* a vision session that has grown its text over two text events, and a
\* third event that left it alone
C5_Witness ==
  /\ kind = "vision"
  /\ Len(received) = 3
  /\ received[1] = TextOf(<<"A">>) /\ received[2] = TextOf(<<"B">>)
  /\ accumulated_text = <<"A", "B">>

\* ----------------------------------------------------------------- C6
\* an event dispatched to the finalText rule of a vision session
FinalTextEvent(e) ==
  /\ e.shape = "object"
  /\ Has(e.obj, "finalText")
  /\ \A k \in {"finishReason", "status", "error", "text"} : ~Has(e.obj, k)

\* C6: in a vision session a finalText event appends its value exactly when
\* the value is non-empty and is not a suffix of accumulated_text; otherwise
\* accumulated_text is unchanged.
C6_FinalTextAppendsUnlessSuffix ==
  [][ (kind = "vision" /\ EventStep /\ FinalTextEvent(NewEvent)) =>
        LET v == NewEvent.obj["finalText"].s
        IN  accumulated_text' =
              IF v # <<>> /\ ~IsSuffix(v, accumulated_text)
                THEN accumulated_text \o v
                ELSE accumulated_text ]_vars

\* ----------------------------------------------------------------- C7
\* an event with a text field and no completion marker or error field
TextFieldEvent(e) ==
  /\ e.shape = "object"
  /\ Has(e.obj, "text")
  /\ \A k \in {"done", "finishReason", "status", "error"} : ~Has(e.obj, k)

\* C7: a text session replaces accumulated_text by the value of the text
\* field when the event has no non-empty content; a vision session appends
\* the value of every text field; and the vision events A, B, status
\* completed leave accumulated text AB with chunk count 3.
C7_step ==
  /\ (EventStep /\ TextFieldEvent(NewEvent)) =>
        LET v == NewEvent.obj["text"].s
        IN  /\ (kind = "text" /\ NewEvent.obj["content"].s = <<>>)
                 => accumulated_text' = v
            /\ kind = "vision" => accumulated_text' = accumulated_text \o v
  /\ (kind = "vision"
      /\ received' = <<TextOf(<<"A">>), TextOf(<<"B">>), StatusCompleted>>)
        => /\ accumulated_text' = <<"A", "B">>
           /\ chunk_count' = 3
           /\ Last(snapshots').type = "completed"
           /\ Last(snapshots').text = <<"A", "B">>

C7_TextFieldPerKind == [][C7_step]_vars

\* the vision example, at its end
C7_Witness ==
  /\ kind = "vision" /\ pc = "returned"
  /\ received = <<TextOf(<<"A">>), TextOf(<<"B">>), StatusCompleted>>
  /\ accumulated_text = <<"A", "B">>
  /\ chunk_count = 3

\* ----------------------------------------------------------------- C8
\* the conditions of the dispatch rules, for session kind k and object d;
\* the content rule belongs to the text session and the finalText rule to
\* the vision session
MatchesTerminal(k, d) ==
  IF k = "text" THEN TextIsDone(d) ELSE VisionIsDone(d)
MatchesError(d)        == Has(d, "error")
MatchesContent(k, d)   == k = "text" /\ d["content"].t = "str"
                                     /\ d["content"].s # <<>>
MatchesText(d)         == Has(d, "text")
MatchesFinalText(k, d) == k = "vision" /\ Has(d, "finalText")

\* the kinds of the snapshots yielded by this step
NewTypes == [i \in 1..Len(NewSnaps) |-> NewSnaps[i].type]

\* C8: for every decoded object the first rule that matches, in the order
\* terminal, error, content, text, finalText, decides the snapshot and the
\* change of accumulated_text.  So an event with a terminal marker and an
\* error field yields the completion snapshot, and an event with an error
\* field and content leaves accumulated_text unchanged.
C8_step ==
  (EventStep /\ NewEvent.shape = "object") =>
    LET d    == NewEvent.obj
        term == MatchesTerminal(kind, d)
        err  == MatchesError(d)
        cont == MatchesContent(kind, d)
        txt  == MatchesText(d)
        fin  == MatchesFinalText(kind, d)
    IN  /\ term =>
             /\ NewTypes = <<"completed">>
             /\ accumulated_text' = accumulated_text
        /\ (~term /\ err) =>
             /\ NewTypes = <<"error">>
             /\ NewSnaps[1].msg = d["error"].s
             /\ accumulated_text' = accumulated_text
        /\ (~term /\ ~err /\ cont) =>
             /\ NewTypes = <<"progress">>
             /\ NewSnaps[1].msg = d["content"].s
             /\ accumulated_text' = accumulated_text \o d["content"].s
        /\ (~term /\ ~err /\ ~cont /\ txt) =>
             /\ NewTypes = IF kind = "text" THEN <<"legacy">>
                                            ELSE <<"progress">>
             /\ NewSnaps[1].text = accumulated_text'
             /\ accumulated_text' =
                  IF kind = "text" THEN d["text"].s
                                   ELSE accumulated_text \o d["text"].s
        /\ (~term /\ ~err /\ ~cont /\ ~txt /\ fin) =>
             /\ NewTypes = <<"near_final">>
             /\ NewSnaps[1].msg = d["finalText"].s

C8_DispatchPriority == [][C8_step]_vars

\* a text session that met an event with both done and error after some
\* text, and answered with the completion snapshot
C8_Witness ==
  /\ kind = "text" /\ pc = "returned"
  /\ Len(received) = 2
  /\ received[1] = ContentOf(<<"A">>)
  /\ received[2] = Object("done" :> True @@ "error" :> Str(<<"E">>))
  /\ Last(snapshots) = Snap("completed", <<"A">>, <<>>, 2)

\* ----------------------------------------------------------------- C9
\* some dispatch rule matches the object d in a session of kind k
SomeRuleMatches(k, d) ==
  \/ MatchesTerminal(k, d)
  \/ MatchesError(d)
  \/ MatchesContent(k, d)
  \/ MatchesText(d)
  \/ MatchesFinalText(k, d)

\* C9: the step that consumes an event yields at most one snapshot; for a
\* decoded object it yields exactly one when some rule matches and none
\* otherwise, and then accumulated_text is unchanged, the session goes on
\* and only chunk_count has changed.
C9_step ==
  EventStep =>
    /\ Len(NewSnaps) <= 1
    /\ NewEvent.shape = "object" =>
         IF SomeRuleMatches(kind, NewEvent.obj)
           THEN Len(NewSnaps) = 1
           ELSE /\ NewSnaps = <<>>
                /\ accumulated_text' = accumulated_text
                /\ pc' = "streaming"
                /\ chunk_count' = chunk_count + 1

C9_AtMostOneSnapshotPerEvent == [][C9_step]_vars

\* a text session after an event with both content and text (one snapshot)
\* and an object with an unknown key (none)
C9_Witness ==
  /\ kind = "text" /\ pc = "streaming"
  /\ received = <<Object("content" :> Str(<<"A">>) @@ "text" :> Str(<<"B">>)),
                  Object("other" :> Num(1))>>
  /\ Len(snapshots) = 3
  /\ chunk_count = 2
  /\ accumulated_text = <<"A">>

\* ---------------------------------------------------------------- C10
\* a payload outside the recognized shapes: undecodable text, a JSON value
\* that is not an object, or an object with unknown keys only
Unrecognized(e) ==
  \/ e = Malformed
  \/ e.shape \in NonObjectShapes
  \/ e = Object("other" :> Num(1))

\* C10: an event with an unrecognized payload yields no snapshot and does
\* not end the session, which goes on to take the events that follow.
C10_UnrecognizedIgnored ==
  [][ (EventStep /\ Unrecognized(NewEvent)) =>
        /\ NewSnaps = <<>>
        /\ pc' = "streaming"
        /\ accumulated_text' = accumulated_text ]_vars

\* ---------------------------------------------------------------- C11
\* C11: in both sessions an object with an error field and no completion
\* marker yields exactly one snapshot, the error snapshot with the field's
\* message, leaves accumulated_text unchanged and ends the session; no
\* request is sent again.
C11_step ==
  /\ (EventStep /\ NewEvent.shape = "object"
                /\ Has(NewEvent.obj, "error")
                /\ ~MatchesTerminal(kind, NewEvent.obj)) =>
        /\ NewSnaps = <<Snap("error", <<>>, NewEvent.obj["error"].s, 0)>>
        /\ accumulated_text' = accumulated_text
        /\ pc' = "returned"
        /\ posts' = posts
  /\ pc = "returned" => UNCHANGED <<posts, snapshots, received>>

C11_ErrorEventIsTerminal == [][C11_step]_vars

\* a vision session ended by an error event after one delta, with events
\* left in the transport
C11_Witness ==
  /\ kind = "vision" /\ pc = "returned" /\ remaining > 0
  /\ received = <<TextOf(<<"A">>), Object("error" :> Str(<<"E">>))>>
  /\ Last(snapshots) = Snap("error", <<>>, <<"E">>, 0)
  /\ accumulated_text = <<"A">>
  /\ posts = 1

\* ---------------------------------------------------------------- C12
\* the request was sent and the stream was not established: session.post
\* raised (no response) or the response has an error status
ConnectFailed == posts >= 1 /\ (status = 0 \/ status >= 400)

\* C12: when establishing the stream fails, the session has ended with
\* exactly one error snapshot (after the 'connecting' one), has processed no
\* event and has sent one request only.
C12_ConnectFailureAborts ==
  /\ posts <= 1
  /\ ConnectFailed =>
       /\ pc = "returned"
       /\ received = <<>> /\ chunk_count = 0
       /\ posts = 1
       /\ Len(snapshots) = 2
       /\ snapshots[1].type = "connecting"
       /\ snapshots[2].type = IF status = 0 THEN "exception" ELSE "http_error"

\* a text session refused with status 503 while the backend had events
C12_Witness ==
  /\ kind = "text" /\ status = 503 /\ remaining > 0
  /\ pc = "returned"
  /\ snapshots = <<Snap("connecting", <<>>, <<>>, 0),
                   Snap("http_error", <<>>, <<"service_unavailable">>, 0)>>

\* ---------------------------------------------------------------- C13
\* the category message of an HTTP error status, the same for both sessions
CategoryOf(code) ==
  CASE code = 400 -> "bad_request"
    [] code = 413 -> "payload_too_large"
    [] code = 429 -> "rate_limited"
    [] code = 500 -> "server_error"
    [] code = 503 -> "service_unavailable"
    [] OTHER      -> "generic"

\* C13: in both sessions the snapshot of an HTTP error status carries the
\* message of the status's own category: 400, 413, 429, 500 and 503 each
\* have their dedicated message and any other status has the generic one.
C13_StatusHasOwnCategory ==
  (posts >= 1 /\ status >= 400) =>
     /\ Last(snapshots).type = "http_error"
     /\ Last(snapshots).msg = <<CategoryOf(status)>>

\* ---------------------------------------------------------------- C14
\* this step yielded the completion snapshot and ended the session
Completes == NewTypes = <<"completed">> /\ pc' = "returned"

\* C14 as stated: a text session completes on an object exactly when done
\* is true; a vision session completes on an object exactly when
\* finishReason is present, whatever its value, or status is "completed".
C14_DonePresence ==
  [][ (EventStep /\ NewEvent.shape = "object") =>
        LET d == NewEvent.obj
        IN  Completes <=>
              IF kind = "text"
                THEN d["done"] = True
                ELSE Has(d, "finishReason")
                       \/ d["status"] = Str(<<"completed">>) ]_vars

\* the values Python takes for false
Falsy == {Null, False, Num(0), Str(<<>>)}

\* C14 amended: a text session completes on an object exactly when done
\* equals True in Python's sense (true, or the number 1); a vision session
\* completes exactly when finishReason is present with a value Python takes
\* for true (so not null and not the empty string) or status is
\* "completed"; done does not end a vision session, and finishReason and
\* status do not end a text session.
C14_DoneRecognition ==
  [][ (EventStep /\ NewEvent.shape = "object") =>
        LET d == NewEvent.obj
        IN  Completes <=>
              IF kind = "text"
                THEN d["done"] \in {True, Num(1)}
                ELSE (Has(d, "finishReason") /\ d["finishReason"] \notin Falsy)
                       \/ d["status"] = Str(<<"completed">>) ]_vars

\* a vision session that went on after an empty and a null finishReason and
\* completed on a non-empty one
C14_Witness ==
  /\ kind = "vision" /\ pc = "returned"
  /\ received = <<Object("finishReason" :> Str(<<>>)),
                  Object("finishReason" :> Null),
                  Object("finishReason" :> Str(<<"STOP">>))>>
  /\ snapshots[3] = Snap("completed", <<>>, <<>>, 3)
  /\ Len(snapshots) = 3

\* ---------------------------------------------------------------- C15
\* the caller keeps pulling and the transport keeps delivering or ends:
\* some step is taken as long as one is possible
FairSpec == Spec /\ WF_vars(Next)

\* an event at which the session recognizes the end of the stream
EndsStream(k, e) ==
  /\ e.shape = "object"
  /\ MatchesTerminal(k, e.obj) \/ MatchesError(e.obj)

\* the session has ended
Ended == pc \in {"returned", "closed", "propagated"}

\* the session was established, was not abandoned, and its transport
\* delivered its events without failing
RanOnInput ==
  /\ Len(snapshots) >= 2 /\ snapshots[2].type = "connected"
  /\ raised \notin {"TransportError", "GeneratorExit"}

\* C15: the session eventually ends; and a session that ran on its finite
\* input has ended either at the first terminal event, or, with no terminal
\* event in the input, when the input was exhausted and without a
\* completion or error snapshot.
C15_Terminates ==
  /\ <>Ended
  /\ [](( Ended /\ RanOnInput ) =>
          \/ /\ received # <<>>
             /\ EndsStream(kind, Last(received))
             /\ \A i \in 1..(Len(received) - 1) :
                   ~EndsStream(kind, received[i])
          \/ /\ remaining = 0
             /\ \A i \in 1..Len(received) : ~EndsStream(kind, received[i])
             /\ \A i \in 1..Len(snapshots) :
                   snapshots[i].type \notin {"completed", "error",
                                             "exception", "http_error"})


\* ----------------------------------------------------------------- C17
\* this step is the caller closing the suspended generator
CloseStep == raised' = "GeneratorExit" /\ raised # "GeneratorExit"

\* C17: closing the generator at a suspension point emits no snapshot and
\* consumes no event, and after it the session never emits a snapshot or
\* consumes an event again.
C17_step ==
  /\ CloseStep => /\ NewSnaps = <<>>
                  /\ snapshots' = snapshots
                  /\ received' = received
                  /\ pc' = "closed"
  /\ raised = "GeneratorExit" => UNCHANGED <<snapshots, received,
                                             accumulated_text, chunk_count,
                                             posts, pc>>

C17_AbandonIsSilent == [][C17_step]_vars

\* a vision session closed after its first progress snapshot, with events
\* still to come
C17_Witness ==
  /\ kind = "vision" /\ pc = "closed" /\ raised = "GeneratorExit"
  /\ remaining > 0
  /\ received = <<TextOf(<<"A">>)>>
  /\ Len(snapshots) = 3
  /\ Last(snapshots) = Snap("progress", <<"A">>, <<"A">>, 1)


\* ----------------------------------------------------------------- C19
\* the snapshot types that report a failure
ErrorTypes == {"error", "exception", "http_error"}

\* a failure occurred after the stream was established: the transport raised
\* while the loop waited for an event, or the loop body raised on an event
FailedInLoop == raised \in {"TransportError", "AttributeError"}

\* C19: no exception ever leaves the generator to the caller; and after a
\* failure inside the event loop the session has ended with exactly one
\* error snapshot, which is its last snapshot.
C19_LoopFailureIsReported ==
  /\ pc # "propagated"
  /\ FailedInLoop =>
       /\ pc = "returned"
       /\ snapshots # <<>>
       /\ Last(snapshots).type = "exception"
       /\ \A i \in 1..(Len(snapshots) - 1) :
             snapshots[i].type \notin ErrorTypes

\* a vision session whose transport failed after one processed event
C19_Witness ==
  /\ kind = "vision" /\ raised = "TransportError" /\ pc = "returned"
  /\ remaining > 0
  /\ received = <<TextOf(<<"A">>)>>
  /\ snapshots = <<Snap("connecting", <<>>, <<>>, 0),
                   Snap("connected", <<>>, <<>>, 0),
                   Snap("progress", <<"A">>, <<"A">>, 1),
                   Snap("exception", <<>>, <<"TransportError">>, 0)>>


\* ----------------------------------------------------------------- C20
\* the snapshot types yielded by the event loop for an event
EventTypes == {"progress", "legacy", "near_final", "completed", "error"}

\* the response status is a success status
StatusOk == status >= 200 /\ status < 400

C20_order ==
  /\ \A i \in 1..Len(snapshots) :
       /\ snapshots[i].type = "connecting" => i = 1
       /\ snapshots[i].type = "connected" =>
            /\ i = 2 /\ snapshots[1].type = "connecting"
            /\ posts = 1 /\ StatusOk
       /\ snapshots[i].type \in EventTypes =>
            /\ i >= 3
            /\ snapshots[1].type = "connecting"
            /\ snapshots[2].type = "connected"
       /\ snapshots[i].type = "warning" =>
            /\ snapshots = <<Snap("warning", <<>>, <<>>, 0)>>
            /\ posts = 0 /\ pc = "returned" /\ received = <<>>
  /\ (pc = "returned" /\ posts = 0 /\ raised = "none") =>
        snapshots = <<Snap("warning", <<>>, <<>>, 0)>>

\* C20: the request is sent only after the 'connecting' snapshot, which is
\* the first snapshot; 'connected' is the second snapshot and exists only
\* with a success status; event snapshots come after both; an input
\* rejected up front gives exactly one warning snapshot and no request.
C20_step ==
  /\ posts' # posts => /\ posts = 0 /\ posts' = 1
                       /\ snapshots = <<Snap("connecting", <<>>, <<>>, 0)>>
  /\ C20_order /\ C20_order'

C20_SnapshotOrder == [][C20_step]_vars

\* a text session that went through all stages
C20_Witness ==
  /\ kind = "text" /\ pc = "returned" /\ posts = 1 /\ status = 200
  /\ received = <<ContentOf(<<"A">>), DoneTrue>>
  /\ Len(snapshots) = 4
  /\ snapshots[1].type = "connecting" /\ snapshots[2].type = "connected"
  /\ snapshots[3].type = "progress" /\ snapshots[4].type = "completed"


\* ================================================================= panel
\* The panel of create_interface: the global 'tester', the click handlers
\* and update_server_url. Each operation is started with an input that
\* makes it send its request.

\* bound on the number of requests logged
MaxRequests == 2

\* the addresses typed into the server_url box
Urls == { DefaultUrl, <<"backend:8080">>, <<"backend:8080", "/">> }

\* the path each operation requests
Endpoint(op) ==
  CASE op = "health"        -> "/api/health"
    [] op = "validate"      -> "/api/validate"
    [] op = "generate"      -> "/api/gemini/generate"
    [] op = "stream"        -> "/api/gemini/stream"
    [] op = "vision"        -> "/api/gemini/vision"
    [] op = "vision_stream" -> "/api/gemini/vision-stream"

\* self.session.get / self.session.post on f"{self.base_url}<path>"
Send(op, base_url) ==
  /\ Len(requests) < MaxRequests
  /\ requests' = Append(requests,
                        [op |-> op, url |-> base_url \o <<Endpoint(op)>>])
  /\ UNCHANGED <<tester, captured, configured>>

\* a single streaming session that has not been started
SessionIdle ==
  /\ kind = "text" /\ pc = "start" /\ remaining = 0
  /\ received = <<>> /\ accumulated_text = <<>> /\ chunk_count = 0
  /\ snapshots = <<>> /\ posts = 0 /\ status = 0
  /\ raised = "none" /\ suspended = FALSE

PanelInit == SessionIdle /\ PanelIdle /\ PairIdle

\* update_server_url(url): 'global tester; tester = BackendTester(url)'
\* rebinds the module global; the click handlers registered by
\* create_interface keep the object they were bound to
UpdateServerUrl ==
  /\ \E url \in Urls :
       /\ tester' = BackendTester(url)
       /\ configured' = url
  /\ UNCHANGED <<captured, requests>>
  /\ UNCHANGED <<session_vars, pair_vars>>

\* health_btn.click(tester.test_health_check, ...): a bound method, taken
\* from the global tester when create_interface ran
HealthCheck ==
  Send("health", captured) /\ UNCHANGED <<session_vars, pair_vars>>

\* validate_btn.click(tester.test_api_validation, ...)
ApiValidation ==
  Send("validate", captured) /\ UNCHANGED <<session_vars, pair_vars>>

\* standard_btn.click(tester.test_standard_generation, ...)
StandardGeneration ==
  Send("generate", captured) /\ UNCHANGED <<session_vars, pair_vars>>

\* stream_btn.click(start_stream_test, ...): start_stream_test reads the
\* global tester when it is called
StreamGeneration ==
  Send("stream", tester) /\ UNCHANGED <<session_vars, pair_vars>>

\* vision_btn.click(tester.test_vision_analysis, ...)
VisionAnalysis ==
  Send("vision", captured) /\ UNCHANGED <<session_vars, pair_vars>>

\* vision_stream_btn.click(start_vision_stream_test, ...)
VisionStreamAnalysis ==
  Send("vision_stream", tester) /\ UNCHANGED <<session_vars, pair_vars>>

PanelNext ==
  \/ UpdateServerUrl
  \/ HealthCheck
  \/ ApiValidation
  \/ StandardGeneration
  \/ StreamGeneration
  \/ VisionAnalysis
  \/ VisionStreamAnalysis

PanelSpec == PanelInit /\ [][PanelNext]_vars

\* ----------------------------------------------------------------- C18
\* C18: every request an operation of the panel sends goes to the address
\* last given to update_server_url (without its trailing slashes), followed
\* by the operation's path.
C18_step ==
  requests' # requests =>
    LET req == Last(requests')
    IN  req.url = RStrip(configured) \o <<Endpoint(req.op)>>

C18_RequestsGoToConfiguredUrl == [][C18_step]_vars


\* ===================================================== sessions side by side
\* Two generator calls on the same BackendTester, both established, pulled
\* in any order: each pull of a session runs its loop for one event.

\* bound on the number of events each of the two sessions receives
MaxPairEvents == 2

\* the two generator calls
Sids == {1, 2}

\* what the transport of a text session may deliver here
PairTextEvents ==
  { Malformed,
    Object("done" :> True),
    Object("content" :> Str(<<"A">>)),
    Object("content" :> Str(<<"B">>)),
    Object("text" :> Str(<<"A">>)) }

\* what the transport of a vision session may deliver here
PairVisionEvents ==
  { Malformed,
    Object("status" :> Str(<<"completed">>)),
    Object("text" :> Str(<<"A">>)),
    Object("text" :> Str(<<"B">>)),
    Object("finalText" :> Str(<<"A">>)) }

\* variant: accumulated_text and chunk_count kept as attributes of the
\* BackendTester the calls share
Frame_OnSelf(sid) == 1

\* where a generator call keeps accumulated_text and chunk_count: they are
\* locals, so each call has a frame of its own
Frame(sid) == sid

PairInit ==
  /\ SessionIdle /\ PanelIdle
  /\ sessions \in [Sids -> { [kind |-> k, pc |-> "start",
                              received |-> <<>>, snapshots |-> <<>>] :
                             k \in {"text", "vision"} }]
  /\ frames = [c \in Sids |-> [accumulated_text |-> <<>>, chunk_count |-> 0]]

\* the call up to the event loop, with an accepted input and a successful
\* response: 'connecting', the POST, 'connected', and the locals initialised
PairOpen(sid) ==
  /\ sessions[sid].pc = "start"
  /\ sessions' = [sessions EXCEPT
                    ![sid].pc = "streaming",
                    ![sid].snapshots = <<Snap("connecting", <<>>, <<>>, 0),
                                         Snap("connected", <<>>, <<>>, 0)>>]
  /\ frames' = [frames EXCEPT
                  ![Frame(sid)] = [accumulated_text |-> <<>>,
                                   chunk_count |-> 0]]
  /\ UNCHANGED <<session_vars, panel_vars>>

\* one iteration of the event loop of session sid
PairEvent(sid) ==
  /\ sessions[sid].pc = "streaming"
  /\ Len(sessions[sid].received) < MaxPairEvents
  /\ \E event \in IF sessions[sid].kind = "text" THEN PairTextEvents
                                                 ELSE PairVisionEvents :
       LET f  == frames[Frame(sid)]
           cc == CountEvent(f.chunk_count)
           r  == LoopBody(sessions[sid].kind, event, f.accumulated_text, cc)
       IN  /\ frames' = [frames EXCEPT
                           ![Frame(sid)] = [accumulated_text |-> r.acc,
                                            chunk_count |-> cc]]
           /\ sessions' = [sessions EXCEPT
                             ![sid].pc = PcAfter(r.ctl),
                             ![sid].received = Append(@, event),
                             ![sid].snapshots = @ \o r.out]
  /\ UNCHANGED <<session_vars, panel_vars>>

PairNext == \E sid \in Sids : PairOpen(sid) \/ PairEvent(sid)

PairSpec == PairInit /\ [][PairNext]_vars

\* ----------------------------------------------------------------- C16
RECURSIVE RunAlone(_, _, _, _, _)
\* a session of kind k run alone over the events evs, from accumulated text
\* acc, chunk count cc and snapshots out: its locals and snapshots at the end
RunAlone(k, evs, acc, cc, out) ==
  IF evs = <<>>
    THEN [accumulated_text |-> acc, chunk_count |-> cc, snapshots |-> out]
  ELSE LET r == LoopBody(k, Head(evs), acc, cc + 1)
       IN  IF r.ctl = "return"
             THEN [accumulated_text |-> r.acc, chunk_count |-> cc + 1,
                   snapshots |-> out \o r.out]
             ELSE RunAlone(k, Tail(evs), r.acc, cc + 1, out \o r.out)

\* C16: however the pulls of the two sessions are interleaved, each
\* session's snapshots, and while it runs its accumulated_text and
\* chunk_count, are those of the same session run alone over the events it
\* has received.
C16_SessionsIsolated ==
  \A sid \in DOMAIN sessions :
    sessions[sid].pc # "start" =>
      LET alone == RunAlone(sessions[sid].kind, sessions[sid].received,
                            <<>>, 0,
                            <<Snap("connecting", <<>>, <<>>, 0),
                              Snap("connected", <<>>, <<>>, 0)>>)
      IN  /\ sessions[sid].snapshots = alone.snapshots
          /\ sessions[sid].pc = "streaming" =>
               /\ frames[Frame(sid)].accumulated_text = alone.accumulated_text
               /\ frames[Frame(sid)].chunk_count = alone.chunk_count

\* a text and a vision session, each two events into its stream, with
\* different accumulated texts
C16_Witness ==
  /\ DOMAIN sessions = Sids
  /\ sessions[1].kind = "text" /\ sessions[2].kind = "vision"
  /\ sessions[1].pc = "streaming" /\ sessions[2].pc = "streaming"
  /\ sessions[1].received = <<Object("content" :> Str(<<"A">>)),
                              Object("content" :> Str(<<"B">>))>>
  /\ sessions[2].received = <<Object("text" :> Str(<<"B">>)),
                              Object("finalText" :> Str(<<"A">>))>>
  /\ frames[1] = [accumulated_text |-> <<"A", "B">>, chunk_count |-> 2]
  /\ frames[2] = [accumulated_text |-> <<"B", "A">>, chunk_count |-> 2]


\* ----------------------------------------------------------------- C21
\* a 'completed' snapshot of a text session reports at least one chunk
CompletedHasChunks ==
  kind = "text" =>
    /\ raised # "ZeroDivisionError"
    /\ \A i \in 1..Len(snapshots) :
          snapshots[i].type = "completed" => snapshots[i].chunk >= 1

\* C21: when a text session receives its done event, chunk_count is at
\* least 1 (the done event itself was counted), so the average per chunk is
\* computed without a division by zero and the completion snapshot is
\* yielded, also when the done event is the first event of the stream.
C21_step ==
  /\ (EventStep /\ kind = "text" /\ NewEvent.shape = "object"
                /\ MatchesTerminal("text", NewEvent.obj)) =>
        /\ chunk_count' >= 1
        /\ chunk_count' = Len(received')
        /\ raised' # "ZeroDivisionError"
        /\ NewSnaps = <<Snap("completed", accumulated_text, <<>>,
                             chunk_count')>>
        /\ pc' = "returned"
  /\ CompletedHasChunks /\ CompletedHasChunks'

C21_ChunkCountPositiveAtCompletion == [][C21_step]_vars

\* a text session whose first event is the done event
C21_Witness ==
  /\ kind = "text" /\ pc = "returned" /\ chunk_count = 1
  /\ received = <<DoneTrue>>
  /\ snapshots = <<Snap("connecting", <<>>, <<>>, 0),
                   Snap("connected", <<>>, <<>>, 0),
                   Snap("completed", <<>>, <<>>, 1)>>

====
